---- MODULE Spec2Model ----
(***************************************************************************)
(* Client side of the portfolio optimizer: the DashboardPage component     *)
(* (frontend/src/App.tsx), the useWebSocket hook (frontend/src/hooks) and  *)
(* the WebSocketService callbacks that drive them.                         *)
(*                                                                         *)
(* Specification Spec is the mounted DashboardPage together with the hook. *)
(* The WebSocketService appears through the interface the hook uses:       *)
(* its onStatusChange / onMessage callbacks and send(), whose only         *)
(* condition is ws.readyState === OPEN (variable socketOpen).  One step of *)
(* the model is one browser task: a React state update, the render and     *)
(* the effects it triggers are part of the step that caused them.          *)
(*                                                                         *)
(* Specification SpecHook is the useWebSocket hook used by a consumer      *)
(* that registers its message handler at a time of its own choosing.       *)
(*                                                                         *)
(* Page state that no compute-lifecycle operation reads (modal state,      *)
(* selectedAllocatorId, includeDividends, allocator configs, the hook's    *)
(* error string) is not tracked.                                           *)
(***************************************************************************)
EXTENDS Integers, Sequences, FiniteSets, TLC

\* ------------------------------------------------------------------ bounds
MaxAllocs == 2      \* allocator ids are 1..MaxAllocs
MaxResults == 2     \* distinct result payloads the server may send
MaxHandles == 3     \* timer handles setTimeout may return
MaxToasts == 1      \* toasts on screen at once
MaxArrivals == 4    \* frames received in SpecHook

AllocIds == 1..MaxAllocs
ResultVals == 1..MaxResults
Handles == 1..MaxHandles

NoId == 0           \* message.allocator_id absent / computingProgress null
NoResult == 0

Statuses == {"disconnected", "connecting", "connected", "reconnecting", "error"}
AllocatorTypes == {"manual", "max_sharpe", "min_volatility"}
\* allocator_type values the server side is taken to send
WireTypes == {"manual", "bogus"}

VARIABLES
  \* ---- WebSocketService, as seen through send()
  socketOpen,          \* ws !== null /\ ws.readyState === WebSocket.OPEN
  \* ---- useWebSocket
  status,              \* useState<ConnectionStatus>
  messageHandler,      \* messageHandlerRef.current: "null", "page", "noop", "consumer"
  messageQueue,        \* messageQueueRef.current
  \* ---- DashboardPage
  mounted,
  allocators,          \* Allocator[]: sequence of [id, type]
  enabledIds,          \* Set<string>
  results,             \* Record<string, AllocatorResult>: id -> payload, NoResult when absent
  dateRange,           \* [fit_start_date, fit_end_date, test_end_date]
  isComputing,
  computingProgress,   \* allocator_id of the last progress message, NoId when null
  isLoadingDashboard,
  pendingComputes,     \* pendingComputesRef.current
  pendingTimeouts,     \* pendingTimeoutsRef.current: allocator id -> timer handle
  timers,              \* live compute timers of the browser: handle -> allocator id of the closure
  toasts,              \* ToastContext toasts
  editingAllocator,    \* useState<Allocator | null>: the allocator record, NoAllocator when null
  creatingAllocatorType, \* useState<AllocatorType | null>: the type, "null" when null
  deletingAllocator,   \* useState<Allocator | null>
  \* ---- history
  sent,                \* compute messages handleCompute put on the socket for the batch in flight
  lastOp,              \* the handler that ran last: handleCompute.*, timeout, result, error,
                       \* onStatusChange, or Other
  arrived,             \* SpecHook: n frames received, of which those numbered in valid passed
                       \* the hook's validation; flushed: messages handed over from the queue
  delivered,           \* SpecHook: messages handed to the consumer's handler, in order
  dropped,             \* SpecHook: numbers of the queued messages the hook discarded
  \* ---- WebSocketService (SpecService)
  svc,                 \* the fields of the service instance
  browser,             \* the WebSocket objects it created (readyState, handlers set) and the live timeouts
  \* ---- computations (SpecScheduler, SpecStats)
  schedIO,             \* the scheduler's input and the boundaries it produced
  statsIO,             \* getStats' input and the statistics it produced
  \* ---- history of the compute requests (SpecLate)
  abandoned            \* ids: allocators with a transmitted compute request that the page
                       \* gave up on (its timer fired) and the server has not answered yet;
                       \* kept only when tracked is set

svcVars == <<socketOpen>>
hookVars == <<status, messageHandler, messageQueue>>
pageVars == <<mounted, allocators, enabledIds, results, dateRange, isComputing,
              computingProgress, isLoadingDashboard, pendingComputes,
              pendingTimeouts, timers, toasts>>
modalVars == <<editingAllocator, creatingAllocatorType, deletingAllocator>>
hookHist == <<arrived, delivered, dropped>>
serviceVars == <<svc, browser>>
calcVars == <<schedIO, statsIO>>
requestHist == <<abandoned>>
offPageVars == <<serviceVars, calcVars, requestHist>>
vars == <<svcVars, hookVars, pageVars, modalVars, sent, lastOp, hookHist, offPageVars>>

\* ------------------------------------------------------------------ helpers
Range(f) == {f[x] : x \in DOMAIN f}

Ids(list) == {list[i].id : i \in DOMAIN list}

\* Array.prototype.filter
RECURSIVE Filter(_, _)
Filter(list, keep) ==
  IF list = <<>> THEN <<>>
  ELSE LET rest == Filter(Tail(list), keep)
       IN IF Head(list).id \in keep THEN <<Head(list)>> \o rest ELSE rest

\* Map.prototype.delete
MapDelete(m, k) == [x \in DOMAIN m \ {k} |-> m[x]]

\* Map.prototype.set
MapSet(m, k, v) == [x \in DOMAIN m \cup {k} |-> IF x = k THEN v ELSE m[x]]

EmptyMap == [x \in {} |-> 0]

\* lastOp: the handler, the allocator id it was about, the result payload it
\* carried, and n: the result stored for id before it (op "result"), the
\* number of pending markers the step released (op "onStatusChange"), or the
\* number of calls of the registered handler (op "handler.threw")
Op(name, id, val, n) == [op |-> name, id |-> id, val |-> val, n |-> n]

\* lastOp of the operations no formula singles out
Other == Op("other", NoId, NoResult, 0)

\* sent keeps the messages of the batch in flight only
BatchLog(pending, wire) == IF pending = {} THEN <<>> ELSE wire

\* null of an Allocator | null state
NoAllocator == [id |-> NoId, type |-> "null"]

\* Lists of distinct allocators the server side can hold for this user.
AllocRecs == [id : AllocIds, type : WireTypes \cap AllocatorTypes]

AllocatorLists ==
  {<<>>} \cup { <<x>> : x \in AllocRecs } \cup
  { p \in { <<x, y>> : x \in AllocRecs, y \in AllocRecs } : p[1].id # p[2].id }

\* Dates are day numbers: new Date(s) of a 'yyyy-MM-dd' string orders as the day does.
DateRange(fitStart, fitEnd, testEnd) ==
  [fit_start_date |-> fitStart, fit_end_date |-> fitEnd, test_end_date |-> testEnd]

\* mock/data.ts defaultDateRange: '2023-01-01' < '2023-12-31' < '2024-06-01'
defaultDateRange == DateRange(1, 2, 3)

\* The date ranges the pickers and the stored settings are taken to produce:
\* a valid one, one that fails the first comparison of validateDateRange
\* (equal dates) and one that fails the second (reversed dates).
DateRanges ==
  { defaultDateRange, DateRange(2, 2, 3), DateRange(1, 3, 2) }

\* ------------------------------------------------------------------ App.tsx
\* validateDateRange without its second check
validateDateRange_FirstCheckOnly(dr) ==
  IF dr.fit_end_date <= dr.fit_start_date
    THEN [isValid |-> FALSE, message |-> "Fit end date must be after fit start date"]
  ELSE [isValid |-> TRUE, message |-> ""]

validateDateRange(dr) ==
  IF dr.fit_end_date <= dr.fit_start_date
    THEN [isValid |-> FALSE, message |-> "Fit end date must be after fit start date"]
  ELSE IF dr.test_end_date <= dr.fit_end_date
    THEN [isValid |-> FALSE, message |-> "Test end date must be after fit end date"]
  ELSE [isValid |-> TRUE, message |-> ""]

\* ToastContext.addToast
addToast(ts, toast) == Append(ts, toast)

\* ---- abandoned requests
Untracked == [tracked |-> FALSE, ids |-> {}]

\* The timer of allocatorId's compute fired: if the request went out, it is
\* still running on the server
GiveUp(allocatorId) ==
  IF abandoned.tracked /\ \E k \in DOMAIN sent : sent[k].allocator_id = allocatorId
  THEN [abandoned EXCEPT !.ids = @ \cup {allocatorId}]
  ELSE abandoned

\* A result or error for allocatorId arrived: the server answers the requests
\* for one allocator in the order it received them, so the oldest is answered
Answered(allocatorId) == [abandoned EXCEPT !.ids = @ \ {allocatorId}]

\* The page resets its computes when the connection is lost; only requests
\* made on the connection in use are counted as awaiting a late answer
ConnectionLost(newStatus) ==
  IF newStatus # "connected" THEN [abandoned EXCEPT !.ids = {}] ELSE abandoned

\* cleanupPendingCompute without pendingTimeoutsRef.current.delete
cleanupPendingCompute_KeepsMapEntry(allocatorId) ==
  LET pend == pendingComputes \ {allocatorId}
      has == allocatorId \in DOMAIN pendingTimeouts
  IN [pending |-> pend,
      timeouts |-> pendingTimeouts,
      timers |-> IF has THEN MapDelete(timers, pendingTimeouts[allocatorId]) ELSE timers,
      isComputing |-> IF pend = {} THEN FALSE ELSE isComputing,
      progress |-> IF pend = {} THEN NoId ELSE computingProgress]

\* cleanupPendingCompute clearing every marker and timer instead of one
cleanupPendingCompute_ClearsAll(allocatorId) ==
  [pending |-> {},
   timeouts |-> EmptyMap,
   timers |-> [h \in DOMAIN timers \ Range(pendingTimeouts) |-> timers[h]],
   isComputing |-> FALSE,
   progress |-> NoId]

\* cleanupPendingCompute that never resets isComputing
cleanupPendingCompute_StaysComputing(allocatorId) ==
  LET pend == pendingComputes \ {allocatorId}
      has == allocatorId \in DOMAIN pendingTimeouts
  IN [pending |-> pend,
      timeouts |-> IF has THEN MapDelete(pendingTimeouts, allocatorId) ELSE pendingTimeouts,
      timers |-> IF has THEN MapDelete(timers, pendingTimeouts[allocatorId]) ELSE timers,
      isComputing |-> isComputing,
      progress |-> computingProgress]

\* cleanupPendingCompute resetting isComputing whatever is still pending
cleanupPendingCompute_AlwaysIdle(allocatorId) ==
  LET pend == pendingComputes \ {allocatorId}
      has == allocatorId \in DOMAIN pendingTimeouts
  IN [pending |-> pend,
      timeouts |-> IF has THEN MapDelete(pendingTimeouts, allocatorId) ELSE pendingTimeouts,
      timers |-> IF has THEN MapDelete(timers, pendingTimeouts[allocatorId]) ELSE timers,
      isComputing |-> FALSE,
      progress |-> NoId]

\* cleanupPendingCompute(allocatorId): the refs and state after the call
cleanupPendingCompute(allocatorId) ==
  LET pend == pendingComputes \ {allocatorId}
      has == allocatorId \in DOMAIN pendingTimeouts
  IN [pending |-> pend,
      timeouts |-> IF has THEN MapDelete(pendingTimeouts, allocatorId) ELSE pendingTimeouts,
      timers |-> IF has THEN MapDelete(timers, pendingTimeouts[allocatorId]) ELSE timers,
      isComputing |-> IF pend = {} THEN FALSE ELSE isComputing,
      progress |-> IF pend = {} THEN NoId ELSE computingProgress]

ApplyCleanup(c) ==
  /\ pendingComputes' = c.pending
  /\ pendingTimeouts' = c.timeouts
  /\ timers' = c.timers
  /\ isComputing' = c.isComputing
  /\ computingProgress' = c.progress

\* The disconnect effect without the clearTimeout loop
resetOnDisconnect_LeavesTimers(newStatus) ==
  IF newStatus # "connected" /\ isComputing
    THEN [pending |-> {}, timeouts |-> EmptyMap, timers |-> timers,
          isComputing |-> FALSE, progress |-> NoId]
    ELSE [pending |-> pendingComputes, timeouts |-> pendingTimeouts, timers |-> timers,
          isComputing |-> isComputing, progress |-> computingProgress]

\* The page's effect on [status, isComputing] (App.tsx 767-776), run with the
\* status the render sees: the refs and state after it.
resetOnDisconnect(newStatus) ==
  IF newStatus # "connected" /\ isComputing
    THEN [pending |-> {},
          timeouts |-> EmptyMap,
          timers |-> [h \in DOMAIN timers \ Range(pendingTimeouts) |-> timers[h]],
          isComputing |-> FALSE,
          progress |-> NoId]
    ELSE [pending |-> pendingComputes, timeouts |-> pendingTimeouts, timers |-> timers,
          isComputing |-> isComputing, progress |-> computingProgress]

\* createTypedAllocatorCallback: throws on an unknown allocator type
createTypedAllocatorThrows(allocatorType) == allocatorType \notin AllocatorTypes

createTypedAllocatorCallback(id, allocatorType) == [id |-> id, type |-> allocatorType]

\* ------------------------------------------------------------------ frames
\* What JSON.parse of a received frame yields (WebSocketService.handleMessage);
\* shape "text" is a frame that does not parse, handed on as the raw string.
Frame(shape, type, id, atype, val, list) ==
  [shape |-> shape, type |-> type, id |-> id, allocator_type |-> atype,
   val |-> val, list |-> list]

ValidFrames ==
  { Frame("object", "allocator_created", i, t, NoResult, <<>>) : i \in AllocIds, t \in WireTypes }
  \cup { Frame("object", "allocator_deleted", i, "", NoResult, <<>>) : i \in AllocIds }
  \cup { Frame("object", "allocators_list", NoId, "", NoResult, l) : l \in AllocatorLists }
  \cup { Frame("object", "progress", i, "", NoResult, <<>>) : i \in AllocIds }
  \cup { Frame("object", "result", i, "", v, <<>>) : i \in AllocIds, v \in ResultVals }
  \cup { Frame("object", "error", i, "", NoResult, <<>>) : i \in AllocIds \cup {NoId} }

InvalidFrames ==
  { Frame(sh, "none", NoId, "", NoResult, <<>>) : sh \in {"text", "null", "number", "object"} }

Frames == ValidFrames \cup InvalidFrames

\* Variant: any object passes, with or without a type
IsValidMessage_AnyObject(message) == message.shape = "object"

\* useWebSocket onMessage validation (useFullscreen.ts 125)
IsValidMessage(message) == message.shape = "object" /\ message.type # "none"

\* ------------------------------------------------------------------ message handler of the page
\* setResults(prev => ({ ...prev, [message.allocator_id]: result })) (App.tsx 728-731)
\* storeResult keeping a result that is already there
storeResult_KeepsEarlier(prev, allocatorId, result) ==
  IF prev[allocatorId] # NoResult THEN prev ELSE [prev EXCEPT ![allocatorId] = result]

storeResult(prev, allocatorId, result) == [prev EXCEPT ![allocatorId] = result]

PageHandlerThrows(message) ==
  \/ /\ message.type = "allocator_created"
     /\ createTypedAllocatorThrows(message.allocator_type)
  \/ /\ message.type = "allocators_list"
     /\ \E i \in DOMAIN message.list : createTypedAllocatorThrows(message.list[i].type)

\* The handler registered by the page's effect (App.tsx 631-747)
PageHandler(message) ==
  IF PageHandlerThrows(message) THEN UNCHANGED <<pageVars, modalVars>>
  ELSE
  CASE message.type = "allocator_created" ->
         /\ allocators' = Append(allocators,
                                 createTypedAllocatorCallback(message.id, message.allocator_type))
         /\ UNCHANGED <<mounted, enabledIds, results, dateRange, isComputing, computingProgress,
                        isLoadingDashboard, pendingComputes, pendingTimeouts, timers, toasts>>
         /\ UNCHANGED modalVars
    [] message.type = "allocator_updated" ->
         \* the config of the allocator named is replaced, id and type stay
         /\ editingAllocator' = NoAllocator
         /\ UNCHANGED <<pageVars, creatingAllocatorType, deletingAllocator>>
    [] message.type = "allocators_list" ->
         /\ allocators' = [i \in DOMAIN message.list |->
                             createTypedAllocatorCallback(message.list[i].id, message.list[i].type)]
         /\ UNCHANGED <<mounted, enabledIds, results, dateRange, isComputing, computingProgress,
                        isLoadingDashboard, pendingComputes, pendingTimeouts, timers, toasts>>
         /\ UNCHANGED modalVars
    [] message.type = "allocator_deleted" ->
         /\ allocators' = Filter(allocators, Ids(allocators) \ {message.id})
         /\ results' = [results EXCEPT ![message.id] = NoResult]
         /\ enabledIds' = enabledIds \ {message.id}
         /\ UNCHANGED <<mounted, dateRange, isComputing, computingProgress,
                        isLoadingDashboard, pendingComputes, pendingTimeouts, timers, toasts>>
         /\ UNCHANGED modalVars
    [] message.type = "progress" ->
         /\ computingProgress' = message.id
         /\ UNCHANGED <<mounted, allocators, enabledIds, results, dateRange, isComputing,
                        isLoadingDashboard, pendingComputes, pendingTimeouts, timers, toasts>>
         /\ UNCHANGED modalVars
    [] message.type = "result" ->
         /\ results' = storeResult(results, message.id, message.val)
         /\ ApplyCleanup(cleanupPendingCompute(message.id))
         /\ UNCHANGED <<mounted, allocators, enabledIds, dateRange, isLoadingDashboard, toasts>>
         /\ UNCHANGED modalVars
    [] message.type = "error" ->
         /\ IF message.id # NoId
              THEN ApplyCleanup(cleanupPendingCompute(message.id))
              ELSE UNCHANGED <<pendingComputes, pendingTimeouts, timers, isComputing,
                               computingProgress>>
         /\ UNCHANGED <<mounted, allocators, enabledIds, results, dateRange,
                        isLoadingDashboard, toasts>>
         /\ UNCHANGED modalVars

\* ------------------------------------------------------------------ useWebSocket
\* The refs of the hook as one service event sees them: the handler, the
\* queue, the messages the event handed to the handler, in order, and
\* whether the last handler call threw.
HookState(handler, queue) ==
  [handler |-> handler, queue |-> queue, calls |-> <<>>, threw |-> FALSE]

\* Whether the registered handler throws on a message: the page's handler as
\* its code does, a consumer's handler on the messages marked so, and the
\* page's () => {} never.
HandlerThrows(handler, message) ==
  CASE handler = "page" -> PageHandlerThrows(message)
    [] handler = "consumer" -> message.throws
    [] OTHER -> FALSE

\* onMessage (useFullscreen.ts 123-142)
onMessage(h, message) ==
  IF ~IsValidMessage(message) THEN h
  ELSE IF h.handler # "null"
    THEN [h EXCEPT !.calls = Append(@, message),
                   !.threw = HandlerThrows(h.handler, message)]
  ELSE [h EXCEPT !.queue = Append(@, message)]

\* setMessageHandler that leaves the queue in place
setMessageHandler_KeepsQueue(h, handler) ==
  [handler |-> handler, queue |-> h.queue, calls |-> h.queue, threw |-> FALSE]

\* setMessageHandler (useFullscreen.ts 178-187): register, empty the queue,
\* hand the queued messages to the new handler; forEach stops at the first
\* message the handler throws on.
setMessageHandler(h, handler) ==
  LET queuedMessages == h.queue
      throwsAt == {i \in DOMAIN queuedMessages : HandlerThrows(handler, queuedMessages[i])}
      last == IF throwsAt = {} THEN Len(queuedMessages)
              ELSE CHOOSE i \in throwsAt : \A j \in throwsAt : i <= j
  IN [handler |-> handler, queue |-> <<>>,
      calls |-> SubSeq(queuedMessages, 1, last), threw |-> throwsAt # {}]

\* ------------------------------------------------------------------ WebSocketService.handleMessage
\* Variant: the catch block hands on the parsed message
RawData_Parsed(frame) == frame

\* event.data, the text of the frame
RawData(frame) == [frame EXCEPT !.shape = "text"]

\* handleMessage (WebSocketService.ts 167-176): JSON.parse and onMessage in
\* a try block whose catch calls onMessage with event.data, so an exception
\* of the handler leads to a second onMessage call for the same frame.
handleMessage(h, frame) ==
  LET tried == IF frame.shape = "text" THEN [h EXCEPT !.threw = TRUE]
               ELSE onMessage(h, frame)
  IN IF tried.threw THEN onMessage(tried, RawData(frame)) ELSE tried

\* The effect of one event on the hook's refs and on what its handler does
Dispatch(h) ==
  /\ messageHandler' = h.handler
  /\ messageQueue' = h.queue
  /\ delivered' = IF h.handler = "consumer" THEN delivered \o h.calls ELSE delivered
  /\ IF h.handler = "page" /\ h.calls # <<>>
       THEN PageHandler(h.calls[1])
       ELSE UNCHANGED <<pageVars, modalVars>>

\* compute (useFullscreen.ts 220-233): the message it builds.  It declares
\* three parameters (allocatorId, dateRange, includeDividends).
compute(allocatorId, dr) ==
  [type |-> "compute",
   allocator_id |-> allocatorId,
   fit_start_date |-> dr.fit_start_date,
   fit_end_date |-> dr.fit_end_date,
   test_end_date |-> dr.test_end_date]

\* ------------------------------------------------------------------ WebSocketService.send
\* send (WebSocketService.ts 87-99): transmits only on an OPEN socket
send(message, wire) == IF socketOpen THEN Append(wire, message) ELSE wire

\* ------------------------------------------------------------------ handleCompute
\* window.setTimeout: a handle that names no live timer
setTimeoutHandle(live, held) ==
  CHOOSE h \in Handles \ (DOMAIN live \cup Range(held)) :
    \A g \in Handles \ (DOMAIN live \cup Range(held)) : h <= g

\* wsCompute(allocator.id, dateRange, includeDividends, i + 1, totalAllocators):
\* compute takes the first three arguments, the two batch hints are discarded.
wsCompute(allocatorId, dr, current, total) == compute(allocatorId, dr)

\* The for loop of handleCompute (App.tsx 922-934) from index i on
RECURSIVE computeLoop(_, _, _)
computeLoop(enabledAllocators, i, st) ==
  IF i > Len(enabledAllocators) THEN st
  ELSE LET allocator == enabledAllocators[i]
           timeoutId == setTimeoutHandle(st.timers, st.timeouts)
       IN computeLoop(enabledAllocators, i + 1,
            [pending |-> st.pending \cup {allocator.id},
             timers |-> MapSet(st.timers, timeoutId, allocator.id),
             timeouts |-> MapSet(st.timeouts, allocator.id, timeoutId),
             sent |-> send(wsCompute(allocator.id, dateRange, i, Len(enabledAllocators)),
                           st.sent)])

\* Variant: every stored result is removed
clearResults_All(prev, enabledAllocators) == [a \in AllocIds |-> NoResult]

\* setResults(prev => { ...; enabledAllocators.forEach(a => delete newResults[a.id]) })
\* (App.tsx 914-918)
clearResults(prev, enabledAllocators) ==
  [a \in AllocIds |-> IF a \in Ids(enabledAllocators) THEN NoResult ELSE prev[a]]

\* The button prop without isComputing
computeDisabled_IgnoresComputing == status # "connected" \/ isLoadingDashboard

\* Header: <button disabled={isComputing}> with the prop the page passes
\* (App.tsx 1044, Header.tsx 481-482)
computeDisabled == isComputing \/ status # "connected" \/ isLoadingDashboard

enabledAllocatorsNow == Filter(allocators, enabledIds)

handleCompute ==
  /\ UNCHANGED offPageVars
  /\ UNCHANGED modalVars
  /\ mounted
  /\ ~computeDisabled
  /\ LET validation == validateDateRange(dateRange)
         enabledAllocators == enabledAllocatorsNow
     IN IF ~validation.isValid
          THEN /\ Len(toasts) < MaxToasts
               /\ lastOp' = Op("handleCompute.rejected", NoId, NoResult, 0)
               /\ toasts' = addToast(toasts, [type |-> "error", title |-> "Validation Error",
                                              message |-> validation.message])
               /\ UNCHANGED <<allocators, enabledIds, results, dateRange, isComputing,
                              computingProgress, isLoadingDashboard, pendingComputes,
                              pendingTimeouts, timers, mounted, sent>>
        ELSE IF enabledAllocators = <<>> \/ status # "connected"
          THEN /\ lastOp' = Op("handleCompute.returned", NoId, NoResult, 0)
               /\ UNCHANGED <<pageVars, sent>>
        ELSE
          LET cleared == [pending |-> {},
                          timers |-> [h \in DOMAIN timers \ Range(pendingTimeouts) |-> timers[h]],
                          timeouts |-> EmptyMap,
                          sent |-> <<>>]
              free == Handles \ DOMAIN cleared.timers
          IN /\ Cardinality(free) >= Len(enabledAllocators)
             /\ LET st == computeLoop(enabledAllocators, 1, cleared)
                IN /\ lastOp' = Op("handleCompute.started", NoId, NoResult, 0)
                   /\ isComputing' = TRUE
                   /\ results' = clearResults(results, enabledAllocators)
                   /\ pendingComputes' = st.pending
                   /\ pendingTimeouts' = st.timeouts
                   /\ timers' = st.timers
                   /\ sent' = st.sent
                   /\ UNCHANGED <<allocators, enabledIds, dateRange, computingProgress,
                                  isLoadingDashboard, toasts, mounted>>
  /\ UNCHANGED <<svcVars, hookVars, hookHist>>

\* The 5-minute timer of handleCompute (App.tsx 927-930) fires
timeoutFire(h) ==
  /\ UNCHANGED <<serviceVars, calcVars>>
  /\ UNCHANGED modalVars
  /\ mounted
  /\ h \in DOMAIN timers
  /\ abandoned' = GiveUp(timers[h])
  /\ LET c == cleanupPendingCompute(timers[h])
     IN ApplyCleanup([c EXCEPT !.timers = MapDelete(c.timers, h)])
  /\ lastOp' = Op("timeout", timers[h], NoResult, 0)
  /\ sent' = BatchLog(pendingComputes', sent)
  /\ UNCHANGED <<svcVars, hookVars, hookHist, mounted, allocators, enabledIds,
                 results, dateRange, isLoadingDashboard, toasts>>

\* ------------------------------------------------------------------ other page operations
\* loadDashboard (App.tsx 469-508) completes: transformAllocator copies id and
\* type as they come, transformSettings yields a date range or null.
loadDashboardFrom(lists) ==
  /\ mounted
  /\ isLoadingDashboard
  /\ UNCHANGED offPageVars
  /\ UNCHANGED modalVars
  /\ \/ \E list \in lists, en \in SUBSET AllocIds, dr \in DateRanges, hasDates \in BOOLEAN :
          /\ en \subseteq Ids(list)
          /\ allocators' = list
          /\ enabledIds' = en
          /\ dateRange' = IF hasDates THEN dr ELSE dateRange
     \/ UNCHANGED <<allocators, enabledIds, dateRange>>      \* fetchDashboard threw
  /\ isLoadingDashboard' = FALSE
  /\ lastOp' = Other
  /\ UNCHANGED <<svcVars, hookVars, hookHist, sent, mounted, results, isComputing,
                 computingProgress, pendingComputes, pendingTimeouts, timers, toasts>>

handleToggleAllocator(id) ==
  /\ UNCHANGED offPageVars
  /\ UNCHANGED modalVars
  /\ mounted
  /\ id \in Ids(allocators)
  /\ enabledIds' = IF id \in enabledIds THEN enabledIds \ {id} ELSE enabledIds \cup {id}
  /\ lastOp' = Other
  /\ UNCHANGED <<svcVars, hookVars, hookHist, sent, mounted, allocators, results, dateRange,
                 isComputing, computingProgress, isLoadingDashboard, pendingComputes,
                 pendingTimeouts, timers, toasts>>

\* handleDateRangeChange(newDateRange), called by the Header's date pickers
handleDateRangeChange(newDateRange) ==
  /\ UNCHANGED offPageVars
  /\ UNCHANGED modalVars
  /\ mounted
  /\ newDateRange # dateRange
  /\ dateRange' = newDateRange
  /\ lastOp' = Other
  /\ UNCHANGED <<svcVars, hookVars, hookHist, sent, mounted, allocators, enabledIds, results,
                 isComputing, computingProgress, isLoadingDashboard, pendingComputes,
                 pendingTimeouts, timers, toasts>>

\* ToastContext.removeToast
removeToast(i) ==
  /\ UNCHANGED offPageVars
  /\ UNCHANGED modalVars
  /\ i \in DOMAIN toasts
  /\ toasts' = [j \in 1..(Len(toasts) - 1) |-> IF j < i THEN toasts[j] ELSE toasts[j + 1]]
  /\ lastOp' = Other
  /\ UNCHANGED <<svcVars, hookVars, hookHist, sent, mounted, allocators, enabledIds, results,
                 dateRange, isComputing, computingProgress, isLoadingDashboard,
                 pendingComputes, pendingTimeouts, timers>>

\* loadDashboard with the allocators the server holds being of the known types
loadDashboard == loadDashboardFrom(AllocatorLists)

\* ------------------------------------------------------------------ service callbacks
\* onStatusChange (useFullscreen.ts 117-122), the render it causes and the
\* page's disconnect effect.  The socket is OPEN exactly from handleOpen on.
onStatusChange(newStatus) ==
  /\ UNCHANGED <<serviceVars, calcVars>>
  /\ abandoned' = ConnectionLost(newStatus)
  /\ UNCHANGED modalVars
  /\ mounted
  /\ newStatus # status
  /\ status' = newStatus
  /\ socketOpen' = (newStatus = "connected")
  /\ LET r == resetOnDisconnect(newStatus)
     IN /\ pendingComputes' = r.pending
        /\ pendingTimeouts' = r.timeouts
        /\ timers' = r.timers
        /\ isComputing' = r.isComputing
        /\ computingProgress' = r.progress
  /\ lastOp' = Op("onStatusChange", NoId, NoResult,
                  Cardinality(pendingComputes) - Cardinality(pendingComputes'))
  /\ sent' = BatchLog(pendingComputes', sent)
  /\ UNCHANGED <<messageHandler, messageQueue, hookHist, mounted, allocators,
                 enabledIds, results, dateRange, isLoadingDashboard, toasts>>

\* The socket leaves OPEN (closing handshake, lost connection) before its
\* close event is dispatched to the service.
socketClosing ==
  /\ UNCHANGED offPageVars
  /\ UNCHANGED modalVars
  /\ mounted
  /\ socketOpen
  /\ socketOpen' = FALSE
  /\ lastOp' = Other
  /\ UNCHANGED <<hookVars, pageVars, hookHist, sent>>

\* A frame arrives on the open socket: WebSocketService.handleMessage, then
\* the hook's onMessage.  allocator_created carries a server-assigned id.
receive(frame) ==
  /\ mounted
  /\ UNCHANGED <<serviceVars, calcVars>>
  /\ abandoned' = IF frame.type \in {"result", "error"} /\ frame.id # NoId
                     THEN Answered(frame.id) ELSE abandoned
  /\ socketOpen
  /\ frame.type = "allocator_created" => frame.id \notin Ids(allocators)
  /\ LET h == handleMessage(HookState(messageHandler, messageQueue), frame)
     IN /\ Dispatch(h)
        /\ lastOp' = CASE frame.type = "result" ->
                             Op("result", frame.id, frame.val, results[frame.id])
                        [] frame.type = "error" -> Op("error", frame.id, NoResult, 0)
                        [] h.threw /\ frame.shape # "text" ->
                             Op("handler.threw", NoId, NoResult, Len(h.calls))
                        [] OTHER -> Other
  /\ sent' = BatchLog(pendingComputes', sent)
  /\ UNCHANGED <<svcVars, status, arrived, dropped>>

\* Unmount: the cleanups of the handler effect (App.tsx 750-753), of the
\* pending-compute effect (757-764) and of the hook's effect (157-165, which
\* disconnects the service).  The component's state goes with the component.
unmount ==
  /\ mounted
  /\ UNCHANGED <<serviceVars, calcVars>>
  /\ abandoned' = ConnectionLost("disconnected")
  /\ mounted' = FALSE
  /\ messageHandler' = setMessageHandler(HookState(messageHandler, messageQueue), "noop").handler
  /\ messageQueue' = <<>>
  /\ timers' = [h \in DOMAIN timers \ Range(pendingTimeouts) |-> timers[h]]
  /\ pendingTimeouts' = EmptyMap
  /\ pendingComputes' = {}
  /\ socketOpen' = FALSE
  /\ status' = "disconnected"
  /\ allocators' = <<>>
  /\ enabledIds' = {}
  /\ results' = [a \in AllocIds |-> NoResult]
  /\ dateRange' = defaultDateRange
  /\ isComputing' = FALSE
  /\ computingProgress' = NoId
  /\ isLoadingDashboard' = FALSE
  /\ toasts' = toasts
  /\ editingAllocator' = NoAllocator
  /\ creatingAllocatorType' = "null"
  /\ deletingAllocator' = NoAllocator
  /\ sent' = <<>>
  /\ lastOp' = Other
  /\ UNCHANGED hookHist

\* ------------------------------------------------------------------ Spec
\* The state after the first render and its effects, but for the handler
InitExceptHandler ==
  /\ socketOpen = FALSE
  /\ status = "disconnected"
  /\ messageQueue = <<>>
  /\ mounted = TRUE
  /\ allocators = <<>>
  /\ enabledIds = {}
  /\ results = [a \in AllocIds |-> NoResult]
  /\ dateRange = defaultDateRange
  /\ isComputing = FALSE
  /\ computingProgress = NoId
  /\ isLoadingDashboard = TRUE
  /\ pendingComputes = {}
  /\ pendingTimeouts = EmptyMap
  /\ timers = EmptyMap
  /\ toasts = <<>>
  /\ editingAllocator = NoAllocator
  /\ creatingAllocatorType = "null"
  /\ deletingAllocator = NoAllocator
  /\ sent = <<>>
  /\ lastOp = Other
  /\ arrived = [n |-> 0, valid |-> {}, flushed |-> 0]
  /\ delivered = <<>>
  /\ dropped = {}

\* Nothing computed yet
Idle == [input |-> <<>>, output |-> <<>>]

\* new WebSocketService(config) (WebSocketService.ts 11-17)
NewService ==
  [ws |-> NoId, status |-> "disconnected", reconnectAttempts |-> 0,
   reconnectTimeoutId |-> NoId, isCleanClose |-> FALSE, isReconnecting |-> FALSE]

\* No WebSocket constructed, no timeout set
NoSockets == [sockets |-> <<>>, timeouts |-> {}]

InitOffPage ==
  /\ abandoned = Untracked
  /\ svc = NewService
  /\ browser = NoSockets
  /\ schedIO = Idle
  /\ statsIO = Idle

\* The page's handler effect (App.tsx 628-754) has registered its handler
Init == InitExceptHandler /\ messageHandler = "page" /\ InitOffPage

Next ==
  \/ loadDashboard
  \/ \E id \in AllocIds : handleToggleAllocator(id)
  \/ \E dr \in DateRanges : handleDateRangeChange(dr)
  \/ handleCompute
  \/ \E h \in Handles : timeoutFire(h)
  \/ \E i \in 1..MaxToasts : removeToast(i)
  \/ \E s \in Statuses : onStatusChange(s)
  \/ socketClosing
  \/ \E frame \in Frames : receive(frame)
  \/ unmount

Spec == Init /\ [][Next]_vars

\* The browser runs a timer that stays due: every live compute timer
\* eventually fires unless it is cleared.
FairSpec == Spec /\ \A h \in Handles : WF_vars(timeoutFire(h))

\* ------------------------------------------------------------------ SpecLate
\* The page as in Spec, with the abandoned requests recorded
InitLate ==
  /\ InitExceptHandler
  /\ messageHandler = "page"
  /\ svc = NewService
  /\ browser = NoSockets
  /\ schedIO = Idle
  /\ statsIO = Idle
  /\ abandoned = [tracked |-> TRUE, ids |-> {}]

SpecLate == InitLate /\ [][Next]_vars

\* ------------------------------------------------------------------ SpecHook
\* useWebSocket with a consumer that registers its handler when it chooses.
\* The frames are those of a running compute and the invalid ones; val is
\* the payload of a result.
HookFrames ==
  {f \in Frames : f.type \in {"progress", "result", "none"} /\ f.val \in {NoResult, 1}}

\* A received frame with its arrival number and whether the consumer's
\* handler throws on it
Stamp(frame, n, throws) ==
  [shape |-> frame.shape, type |-> frame.type, id |-> frame.id,
   allocator_type |-> frame.allocator_type, val |-> frame.val, list |-> frame.list,
   n |-> n, throws |-> throws]

Numbers(messages) == {messages[i].n : i \in DOMAIN messages}

\* The hook before any handler is registered (useFullscreen.ts 109-110)
InitHook == InitExceptHandler /\ messageHandler = "null" /\ InitOffPage

\* A frame arrives on the open socket (WebSocketService.handleMessage)
hookReceive(frame, throws) ==
  /\ mounted
  /\ UNCHANGED offPageVars
  /\ socketOpen
  /\ arrived.n < MaxArrivals
  /\ throws => IsValidMessage(frame)
  /\ LET message == Stamp(frame, arrived.n + 1, throws)
     IN /\ Dispatch(handleMessage(HookState(messageHandler, messageQueue), message))
        /\ arrived' = [arrived EXCEPT !.n = message.n,
                                      !.valid = IF IsValidMessage(message)
                                                  THEN @ \cup {message.n} ELSE @]
  /\ lastOp' = Other
  /\ UNCHANGED <<svcVars, status, dropped, sent>>

\* The consumer calls setMessageHandler(handler)
hookRegister ==
  /\ mounted
  /\ UNCHANGED offPageVars
  /\ LET h == setMessageHandler(HookState(messageHandler, messageQueue), "consumer")
     IN /\ Dispatch(h)
        /\ dropped' = dropped \cup (Numbers(messageQueue) \ (Numbers(h.calls) \cup Numbers(h.queue)))
        /\ arrived' = [arrived EXCEPT !.flushed = @ + Len(h.calls)]
  /\ lastOp' = Other
  /\ UNCHANGED <<svcVars, status, sent>>

\* The hook's effect runs again for a new token (useFullscreen.ts 112-165):
\* the cleanup disconnects the service and empties the queue, the effect
\* builds a new service and connects it.
hookEffectRerun ==
  /\ UNCHANGED offPageVars
  /\ UNCHANGED modalVars
  /\ mounted
  /\ messageQueue' = <<>>
  /\ dropped' = dropped \cup Numbers(messageQueue)
  /\ socketOpen' = FALSE
  /\ status' = "connecting"
  /\ lastOp' = Other
  /\ UNCHANGED <<messageHandler, pageVars, sent, arrived, delivered>>

NextHook ==
  \/ \E frame \in HookFrames, throws \in BOOLEAN : hookReceive(frame, throws)
  \/ hookRegister
  \/ hookEffectRerun
  \/ onStatusChange("connected")

SpecHook == InitHook /\ [][NextHook]_vars

\* ------------------------------------------------------------------ SpecAllocators
\* The page's allocator management: the user's create, duplicate, update
\* and delete actions, the server's acknowledgements and the dashboard load.
\* The dashboard response and the allocators_list message carry the type
\* as a string.
WireRecs == [id : AllocIds, type : WireTypes]

WireLists ==
  {<<>>} \cup { <<x>> : x \in WireRecs } \cup
  { p \in { <<x, y>> : x \in WireRecs, y \in WireRecs } : p[1].id # p[2].id }

AllocatorFrames ==
  { Frame("object", "allocator_created", i, t, NoResult, <<>>) : i \in AllocIds, t \in WireTypes }
  \cup { Frame("object", "allocator_updated", i, "", NoResult, <<>>) : i \in AllocIds }
  \cup { Frame("object", "allocator_deleted", i, "", NoResult, <<>>) : i \in AllocIds }
  \cup { Frame("object", "allocators_list", NoId, "", NoResult, l) : l \in WireLists }

\* allocators.find(a => a.id === id)
Find(list, id) ==
  IF id \in Ids(list)
    THEN list[CHOOSE i \in DOMAIN list : list[i].id = id /\ \A j \in 1..(i - 1) : list[j].id # id]
    ELSE NoAllocator

\* createAllocator / updateAllocator / deleteAllocator of the hook
\* (useFullscreen.ts 189-210): the message handed to send
createAllocator(type) == [type |-> "create_allocator", allocator_type |-> type]

updateAllocator(id) == [type |-> "update_allocator", id |-> id]

deleteAllocator(id) == [type |-> "delete_allocator", id |-> id]

\* lastOp of a user action that called the hook: the request and how many
\* messages send put on the socket for it
Request(message) ==
  Op(message.type, IF "id" \in DOMAIN message THEN message.id ELSE NoId, NoResult,
     Len(send(message, <<>>)))

UserFrame == UNCHANGED <<svcVars, hookVars, hookHist, sent, pageVars, offPageVars>>

handleConfigureAllocator(id) ==
  /\ mounted
  /\ Find(allocators, id) # NoAllocator
  /\ editingAllocator' = Find(allocators, id)
  /\ lastOp' = Other
  /\ UNCHANGED <<creatingAllocatorType, deletingAllocator>>
  /\ UserFrame

handleDuplicateAllocator(id) ==
  /\ mounted
  /\ Find(allocators, id) # NoAllocator
  /\ lastOp' = Request(createAllocator(Find(allocators, id).type))
  /\ UNCHANGED modalVars
  /\ UserFrame

handleDeleteAllocator(id) ==
  /\ mounted
  /\ Find(allocators, id) # NoAllocator
  /\ deletingAllocator' = Find(allocators, id)
  /\ lastOp' = Other
  /\ UNCHANGED <<editingAllocator, creatingAllocatorType>>
  /\ UserFrame

\* confirmDeleteAllocator with an optimistic removal from the list
confirmDeleteAllocator_Optimistic ==
  /\ mounted
  /\ UNCHANGED offPageVars
  /\ deletingAllocator # NoAllocator
  /\ lastOp' = Request(deleteAllocator(deletingAllocator.id))
  /\ deletingAllocator' = NoAllocator
  /\ allocators' = Filter(allocators, Ids(allocators) \ {deletingAllocator.id})
  /\ UNCHANGED <<editingAllocator, creatingAllocatorType>>
  /\ UNCHANGED <<svcVars, hookVars, hookHist, sent, mounted, enabledIds, results, dateRange,
                 isComputing, computingProgress, isLoadingDashboard, pendingComputes,
                 pendingTimeouts, timers, toasts>>

\* confirmDeleteAllocator (App.tsx 833-855); setAllocators is called with an
\* updater that returns the list it was given.
confirmDeleteAllocator ==
  /\ mounted
  /\ deletingAllocator # NoAllocator
  /\ lastOp' = Request(deleteAllocator(deletingAllocator.id))
  /\ deletingAllocator' = NoAllocator
  /\ UNCHANGED <<editingAllocator, creatingAllocatorType>>
  /\ UserFrame

handleCreateAllocator(type) ==
  /\ mounted
  /\ creatingAllocatorType' = type
  /\ lastOp' = Other
  /\ UNCHANGED <<editingAllocator, deletingAllocator>>
  /\ UserFrame

showManualModal == creatingAllocatorType = "manual" \/ editingAllocator.type = "manual"

showMPTModal ==
  \/ creatingAllocatorType \in {"max_sharpe", "min_volatility"}
  \/ editingAllocator.type \in {"max_sharpe", "min_volatility"}

\* handleSaveManualAllocator (App.tsx 862-872), called by the manual modal
handleSaveManualAllocator ==
  /\ mounted
  /\ showManualModal
  /\ IF editingAllocator # NoAllocator /\ editingAllocator.type = "manual"
       THEN /\ lastOp' = Request(updateAllocator(editingAllocator.id))
            /\ UNCHANGED modalVars
     ELSE IF creatingAllocatorType = "manual"
       THEN /\ lastOp' = Request(createAllocator("manual"))
            /\ creatingAllocatorType' = "null"
            /\ UNCHANGED <<editingAllocator, deletingAllocator>>
     ELSE /\ lastOp' = Other
          /\ UNCHANGED modalVars
  /\ UserFrame

\* handleSaveMPTAllocator (App.tsx 874-884), called by the MPT modal
handleSaveMPTAllocator ==
  /\ mounted
  /\ showMPTModal
  /\ IF editingAllocator # NoAllocator
       THEN /\ lastOp' = Request(updateAllocator(editingAllocator.id))
            /\ UNCHANGED modalVars
     ELSE IF creatingAllocatorType \in {"max_sharpe", "min_volatility"}
       THEN /\ lastOp' = Request(createAllocator(creatingAllocatorType))
            /\ creatingAllocatorType' = "null"
            /\ UNCHANGED <<editingAllocator, deletingAllocator>>
     ELSE /\ lastOp' = Other
          /\ UNCHANGED modalVars
  /\ UserFrame

\* closeManualModal / closeMPTModal (App.tsx 960-968)
closeModal ==
  /\ mounted
  /\ showManualModal \/ showMPTModal
  /\ editingAllocator' = NoAllocator
  /\ creatingAllocatorType' = "null"
  /\ lastOp' = Other
  /\ UNCHANGED deletingAllocator
  /\ UserFrame

\* The delete dialog's onClose (App.tsx 1098)
closeDeleteModal ==
  /\ mounted
  /\ deletingAllocator # NoAllocator
  /\ deletingAllocator' = NoAllocator
  /\ lastOp' = Other
  /\ UNCHANGED <<editingAllocator, creatingAllocatorType>>
  /\ UserFrame

\* loadDashboard with whatever types the response carries
loadDashboardWire == loadDashboardFrom(WireLists)

NextAllocators ==
  \/ loadDashboardWire
  \/ \E id \in AllocIds : handleToggleAllocator(id)
  \/ \E id \in AllocIds : handleConfigureAllocator(id)
  \/ \E id \in AllocIds : handleDuplicateAllocator(id)
  \/ \E id \in AllocIds : handleDeleteAllocator(id)
  \/ confirmDeleteAllocator
  \/ \E type \in AllocatorTypes : handleCreateAllocator(type)
  \/ handleSaveManualAllocator
  \/ handleSaveMPTAllocator
  \/ closeModal
  \/ closeDeleteModal
  \/ \E s \in {"connected", "reconnecting"} : onStatusChange(s)
  \/ socketClosing
  \/ \E frame \in AllocatorFrames : receive(frame)

SpecAllocators == Init /\ [][NextAllocators]_vars

\* ------------------------------------------------------------------ Rebalance Scheduler
\* The scheduler is part of the backend computation engine. Dates are day
\* numbers of January..March of a non-leap year (1 = Jan 1, 90 = Mar 31).
MaxIntervalValue == 2
DaysInMonth == <<31, 28, 31>>

RECURSIVE DaysBefore(_)
DaysBefore(m) == IF m = 1 THEN 0 ELSE DaysBefore(m - 1) + DaysInMonth[m - 1]

LastDay == DaysBefore(Len(DaysInMonth)) + DaysInMonth[Len(DaysInMonth)]
MonthOf(d) == CHOOSE m \in 1..Len(DaysInMonth) : DaysBefore(m) < d /\ d <= DaysBefore(m) + DaysInMonth[m]
Min(a, b) == IF a < b THEN a ELSE b

Intervals == [value : 1..MaxIntervalValue, unit : {"days", "weeks", "months"}]

\* date + interval: a month step keeps the day of the month, shortened to the
\* target month's length; a step past the calendar lands after every date
AddInterval(d, interval) ==
  CASE interval.unit = "days" -> d + interval.value
    [] interval.unit = "weeks" -> d + 7 * interval.value
    [] interval.unit = "months" ->
         LET m == MonthOf(d) + interval.value
         IN IF m > Len(DaysInMonth) THEN LastDay + 1
            ELSE DaysBefore(m) + Min(d - DaysBefore(MonthOf(d)), DaysInMonth[m])

\* Variant: the last boundary is the unclamped step
lastBoundary_Unclamped(next, test_end) == next

\* The final boundary is clamped to test_end
lastBoundary(next, test_end) == test_end

\* The boundaries after `last`: step by the interval until test_end is reached
RECURSIVE boundariesAfter(_, _, _)
boundariesAfter(last, test_end, interval) ==
  LET next == AddInterval(last, interval)
  IN IF next >= test_end THEN <<lastBoundary(next, test_end)>>
     ELSE <<next>> \o boundariesAfter(next, test_end, interval)

boundaries(fit_end, test_end, interval) == <<fit_end>> \o boundariesAfter(fit_end, test_end, interval)

\* Each adjacent pair of boundaries is one PortfolioSegment [start_date, end_date)
PortfolioSegments(b) == [i \in 1..(Len(b) - 1) |-> [start_date |-> b[i], end_date |-> b[i + 1]]]

\* Valid inputs: fit_end before test_end, a positive interval
ScheduleInputs ==
  { in \in (1..LastDay) \X (1..LastDay) \X Intervals : in[1] < in[2] }

InitScheduler ==
  /\ InitExceptHandler
  /\ messageHandler = "page"
  /\ svc = NewService
  /\ browser = NoSockets
  /\ abandoned = Untracked
  /\ statsIO = Idle
  /\ schedIO \in [input : ScheduleInputs, output : {<<>>}]

schedule ==
  /\ schedIO.output = <<>>
  /\ schedIO' = [schedIO EXCEPT !.output =
                   PortfolioSegments(boundaries(schedIO.input[1], schedIO.input[2], schedIO.input[3]))]
  /\ UNCHANGED <<svcVars, hookVars, pageVars, modalVars, sent, lastOp, hookHist, serviceVars, statsIO, requestHist>>

NextScheduler == schedule

SpecScheduler == InitScheduler /\ [][NextScheduler]_vars

\* ------------------------------------------------------------------ getStats
\* ResultsChart's getStats (part_014 48-89). A JavaScript number is modelled as
\* [nan, num, den]: NaN, or the rational num/den. Times are counted in days
\* (getTime() / msPerDay), so calendarDays is the difference of two day numbers.
MaxDates == 3
MaxReturns == 2

NaN == [nan |-> TRUE, num |-> 0, den |-> 1]
Number(n) == [nan |-> FALSE, num |-> n, den |-> 1]

\* a - b, a / (n/d) and a > 0 in IEEE arithmetic: NaN propagates and compares false
Minus(a, b) == IF a.nan \/ b.nan THEN NaN ELSE Number(a.num - b.num)
DividedBy(a, n, d) == IF a.nan THEN NaN ELSE [nan |-> FALSE, num |-> a.num * d, den |-> a.den * n]
IsPositive(a) == ~a.nan /\ a.num > 0

\* (Math.pow(1 + totalReturn / 100, 1 / yearsElapsed) - 1) * 100, kept as an expression
CAGR(totalReturn, yearsElapsed) == [kind |-> "cagr", of |-> totalReturn, over |-> yearsElapsed]
Plain(n) == [kind |-> "number", of |-> n, over |-> Number(1)]

\* new Date(s).getTime() / msPerDay of the date strings a result may carry:
\* three calendar days (two consecutive, one a year later) and an unparseable string
DateValues == {Number(1), Number(2), Number(367), NaN}
ReturnValues == {0, 25}

SeqsUpTo(S, n) == UNION { [1..k -> S] : k \in 0..n }

NoStats == [present |-> FALSE, total_return |-> 0, annualized_return |-> 0]

\* AllocatorResult: performance.stats, performance.dates,
\* performance.cumulative_returns and the number of segments
AllocatorResults ==
  [stats : {NoStats, [present |-> TRUE, total_return |-> 25, annualized_return |-> 12]},
   dates : SeqsUpTo(DateValues, MaxDates),
   cumulative_returns : SeqsUpTo(ReturnValues, MaxReturns),
   segments : 1..2]

\* Variant: a zero elapsed time takes the CAGR branch
annualizedReturn_ZeroElapsed(totalReturn, yearsElapsed) ==
  IF IsPositive(yearsElapsed) \/ (~yearsElapsed.nan /\ yearsElapsed.num = 0)
  THEN CAGR(totalReturn, yearsElapsed) ELSE Plain(0)

\* part_014 76-78
annualizedReturn(totalReturn, yearsElapsed) ==
  IF IsPositive(yearsElapsed) THEN CAGR(totalReturn, yearsElapsed) ELSE Plain(0)

\* part_014 64-74
yearsElapsed(dates) ==
  IF Len(dates) >= 2
  THEN LET calendarDays == Minus(dates[Len(dates)], dates[1])
       IN DividedBy(calendarDays, 36525, 100)
  ELSE Number(0)

\* part_014 66: cumulative_returns[cumulative_returns.length - 1] || 0
totalReturn(cumulative_returns) ==
  IF Len(cumulative_returns) = 0 THEN 0 ELSE cumulative_returns[Len(cumulative_returns)]

getStats(result) ==
  IF result.stats.present
  THEN [totalReturn |-> result.stats.total_return,
        annualizedReturn |-> Plain(result.stats.annualized_return),
        rebalances |-> result.segments]
  ELSE [totalReturn |-> totalReturn(result.cumulative_returns),
        annualizedReturn |-> annualizedReturn(totalReturn(result.cumulative_returns),
                                              yearsElapsed(result.dates)),
        rebalances |-> result.segments]

InitStats ==
  /\ InitExceptHandler
  /\ messageHandler = "page"
  /\ svc = NewService
  /\ browser = NoSockets
  /\ abandoned = Untracked
  /\ schedIO = Idle
  /\ statsIO \in [input : AllocatorResults, output : {<<>>}]

\* The chart renders a result: useMemo calls getStats on it
renderStats ==
  /\ statsIO.output = <<>>
  /\ statsIO' = [statsIO EXCEPT !.output = <<getStats(statsIO.input)>>]
  /\ UNCHANGED <<svcVars, hookVars, pageVars, modalVars, sent, lastOp, hookHist, serviceVars, schedIO, requestHist>>

NextStats == renderStats

SpecStats == InitStats /\ [][NextStats]_vars

\* ------------------------------------------------------------------ WebSocketService
\* One service instance and the browser objects it made. An operation works on
\* x = [svc, br, cb]: the instance's fields, the browser's sockets and
\* timeouts, and the config callbacks invoked so far in the running task.
MaxSockets == 6
maxReconnectAttempts == 5

Running(s, b) == [svc |-> s, br |-> b, cb |-> <<>>]

readyState(x, i) == x.br.sockets[i].readyState

\* setStatus (WebSocketService.ts 241-246)
setStatus(x, newStatus) ==
  IF x.svc.status # newStatus
  THEN [x EXCEPT !.svc.status = newStatus, !.cb = Append(@, "onStatusChange")]
  ELSE x

\* clearEventHandlers (119-126)
clearEventHandlers(x) ==
  IF x.svc.ws = NoId THEN x ELSE [x EXCEPT !.br.sockets[x.svc.ws].handlers = FALSE]

\* ws.close(): a socket that is not yet closing starts the closing handshake
close(x, i) ==
  IF readyState(x, i) \in {"OPEN", "CONNECTING"}
  THEN [x EXCEPT !.br.sockets[i].readyState = "CLOSING"]
  ELSE x

\* Variant: the old socket keeps its handlers
dropSocket_KeepsHandlers(x) ==
  IF x.svc.ws = NoId THEN x
  ELSE [close(x, x.svc.ws) EXCEPT !.svc.ws = NoId]

\* "Clean up old WebSocket" (40-46 in connect, 200-206 in attemptReconnect)
dropSocket(x) ==
  IF x.svc.ws = NoId THEN x
  ELSE [close(clearEventHandlers(x), x.svc.ws) EXCEPT !.svc.ws = NoId]

\* clearReconnectTimeout (231-236)
clearReconnectTimeout(x) ==
  IF x.svc.reconnectTimeoutId = NoId THEN x
  ELSE [x EXCEPT !.br.timeouts = @ \ {x.svc.reconnectTimeoutId},
                 !.svc.reconnectTimeoutId = NoId]

\* connect (34-57); throws: the WebSocket constructor threw
connect(x, throws) ==
  IF x.svc.ws # NoId /\ readyState(x, x.svc.ws) \in {"OPEN", "CONNECTING"} THEN x
  ELSE LET y == setStatus(dropSocket(x), "connecting")
       IN IF throws
          THEN [setStatus(y, "error") EXCEPT !.cb = Append(@, "onError")]
          ELSE [y EXCEPT !.br.sockets = Append(@, [readyState |-> "CONNECTING", handlers |-> TRUE]),
                         !.svc.ws = Len(y.br.sockets) + 1]

\* Variant: the reconnect timer survives
disconnect_KeepsTimer(x) ==
  LET y == [x EXCEPT !.svc.isCleanClose = TRUE]
      z == IF y.svc.ws = NoId THEN y
           ELSE [close(clearEventHandlers(y), y.svc.ws) EXCEPT !.svc.ws = NoId]
  IN [setStatus(z, "disconnected") EXCEPT !.svc.reconnectAttempts = 0]

\* disconnect (62-75)
disconnect(x) ==
  LET y == clearReconnectTimeout([x EXCEPT !.svc.isCleanClose = TRUE])
      z == IF y.svc.ws = NoId THEN y
           ELSE [close(clearEventHandlers(y), y.svc.ws) EXCEPT !.svc.ws = NoId]
  IN [setStatus(z, "disconnected") EXCEPT !.svc.reconnectAttempts = 0]

\* handleOpen (131-135)
handleOpen(x) ==
  [setStatus(x, "connected") EXCEPT !.svc.reconnectAttempts = 0, !.svc.isCleanClose = FALSE]

\* Variant: no limit on the attempts
attemptReconnect_Unbounded(x) ==
  IF x.svc.isReconnecting THEN x
  ELSE LET y == setStatus([dropSocket(clearReconnectTimeout(x)) EXCEPT !.svc.isReconnecting = TRUE],
                          "reconnecting")
           h == setTimeoutHandle([t \in y.br.timeouts |-> "reconnect"], <<x.svc.reconnectTimeoutId>>)
       IN [y EXCEPT !.svc.reconnectAttempts = @ + 1,
                    !.svc.reconnectTimeoutId = h,
                    !.br.timeouts = @ \cup {h}]

\* attemptReconnect (181-226)
attemptReconnect(x) ==
  IF x.svc.isReconnecting THEN x
  ELSE IF x.svc.reconnectAttempts >= maxReconnectAttempts
  THEN [setStatus(x, "error") EXCEPT !.svc.isReconnecting = FALSE]
  ELSE LET y == setStatus([dropSocket(clearReconnectTimeout(x)) EXCEPT !.svc.isReconnecting = TRUE],
                          "reconnecting")
           h == setTimeoutHandle([t \in y.br.timeouts |-> "reconnect"], <<x.svc.reconnectTimeoutId>>)
       IN [y EXCEPT !.svc.reconnectAttempts = @ + 1,
                    !.svc.reconnectTimeoutId = h,
                    !.br.timeouts = @ \cup {h}]

\* handleClose (140-150)
handleClose(x, code) ==
  IF code = 1000 \/ x.svc.isCleanClose
  THEN [setStatus(x, "disconnected") EXCEPT !.svc.reconnectAttempts = 0]
  ELSE attemptReconnect(x)

\* handleError (155-162)
handleError(x) ==
  LET y == [x EXCEPT !.cb = Append(@, "onError")]
  IN IF y.svc.status # "reconnecting" /\ ~y.svc.isReconnecting THEN attemptReconnect(y) ELSE y

\* handleMessage (167-176) of a well-formed frame
serviceHandleMessage(x) == [x EXCEPT !.cb = Append(@, "onMessage")]

\* The browser dispatches an event of socket i: the handler runs if it is set
hasHandlers(x, i) == x.br.sockets[i].handlers

\* The task ends: the fields, the browser objects, and what the task was
\* (event, socket, close code, number of callbacks invoked)
Commit(x, event, i, code) ==
  /\ svc' = x.svc
  /\ browser' = x.br
  /\ lastOp' = Op(event, i, code, Len(x.cb))
  /\ UNCHANGED <<svcVars, hookVars, pageVars, modalVars, sent, hookHist, calcVars, requestHist>>

Now == Running(svc, browser)
SocketIds == DOMAIN browser.sockets
CloseCodes == {1000, 1001}

\* ---- the consumer's calls
serviceConnect(throws) ==
  /\ Len(browser.sockets) < MaxSockets
  /\ Commit(connect(Now, throws), "connect", NoId, 0)

serviceDisconnect == Commit(disconnect(Now), "disconnect", NoId, 0)

\* ---- the browser's tasks
\* The connection is established
socketOpens(i) ==
  /\ browser.sockets[i].readyState = "CONNECTING"
  /\ LET x == [Now EXCEPT !.br.sockets[i].readyState = "OPEN"]
     IN Commit(IF hasHandlers(x, i) THEN handleOpen(x) ELSE x, "open", i, 0)

\* The connection fails or is lost: an error event, then a close event with code 1006
socketFails(i) ==
  /\ browser.sockets[i].readyState \in {"CONNECTING", "OPEN"}
  /\ LET x == [Now EXCEPT !.br.sockets[i].readyState = "CLOSED"]
         y == IF hasHandlers(x, i) THEN handleError(x) ELSE x
         z == IF hasHandlers(y, i) THEN handleClose(y, 1006) ELSE y
     IN Commit(z, "close", i, 1006)

\* The server closes the connection with a code: a close event only
serverCloses(i, code) ==
  /\ browser.sockets[i].readyState = "OPEN"
  /\ LET x == [Now EXCEPT !.br.sockets[i].readyState = "CLOSED"]
     IN Commit(IF hasHandlers(x, i) THEN handleClose(x, code) ELSE x, "close", i, code)

\* The server starts the closing handshake: the socket leaves OPEN, no event yet
socketStartsClosing(i) ==
  /\ browser.sockets[i].readyState = "OPEN"
  /\ Commit([Now EXCEPT !.br.sockets[i].readyState = "CLOSING"], "closing", i, 0)

\* A closing handshake (the client's or the server's) completes
closeCompletes(i, code) ==
  /\ browser.sockets[i].readyState = "CLOSING"
  /\ LET x == [Now EXCEPT !.br.sockets[i].readyState = "CLOSED"]
     IN Commit(IF hasHandlers(x, i) THEN handleClose(x, code) ELSE x, "close", i, code)

\* A frame arrives
socketMessage(i) ==
  /\ browser.sockets[i].readyState \in {"OPEN", "CLOSING"}
  /\ Commit(IF hasHandlers(Now, i) THEN serviceHandleMessage(Now) ELSE Now, "message", i, 0)

\* The reconnect timeout fires (220-223)
reconnectTimerFires(h) ==
  /\ h \in browser.timeouts
  /\ Len(browser.sockets) < MaxSockets
  /\ LET x == [Now EXCEPT !.br.timeouts = @ \ {h}, !.svc.isReconnecting = FALSE]
     IN Commit(connect(x, FALSE), "timer", NoId, 0)

NextService ==
  \/ \E throws \in BOOLEAN : serviceConnect(throws)
  \/ serviceDisconnect
  \/ \E i \in SocketIds : socketOpens(i)
  \/ \E i \in SocketIds : socketFails(i)
  \/ \E i \in SocketIds, code \in CloseCodes : serverCloses(i, code)
  \/ \E i \in SocketIds : socketStartsClosing(i)
  \/ \E i \in SocketIds, code \in CloseCodes : closeCompletes(i, code)
  \/ \E i \in SocketIds : socketMessage(i)
  \/ \E h \in Handles : reconnectTimerFires(h)

SpecService == Init /\ [][NextService]_vars

\* ================================================================== properties
LiveTimersOf(a) == {h \in DOMAIN timers : timers[h] = a}

\* C1: in every reachable state the pending allocator ids are exactly the keys
\* of the pending-timeout map, every pending compute has exactly one live
\* timer (the one the map holds for it), and no live timer belongs to an
\* allocator that is not pending.
C1_PendingIsTimeoutKeys ==
  /\ pendingComputes = DOMAIN pendingTimeouts
  /\ \A a \in pendingComputes : LiveTimersOf(a) = {pendingTimeouts[a]}
  /\ \A h \in DOMAIN timers : timers[h] \in pendingComputes

\* C1 witness: one of two pending computes has been cleaned up by its timer,
\* the other is still pending with its timer.
C1_Witness ==
  /\ lastOp.op = "timeout"
  /\ Cardinality(pendingComputes) = 1
  /\ Cardinality(DOMAIN timers) = 1

\* C2: a handleCompute that starts a batch sends no compute for an allocator
\* that has a pending marker when it runs, and sends at most one compute per
\* allocator id.
C2_NoSendWhilePending ==
  [][lastOp'.op = "handleCompute.started" =>
       /\ \A i \in DOMAIN sent' : sent'[i].allocator_id \notin pendingComputes
       /\ \A i, j \in DOMAIN sent' :
            sent'[i].allocator_id = sent'[j].allocator_id => i = j]_vars

\* C2 witness: a batch of two computes has been sent.
C2_Witness ==
  /\ lastOp.op = "handleCompute.started"
  /\ Len(sent) = 2

\* The ComputeRequest validity invariant, in the spec's words
RangeIsValid(dr) ==
  dr.fit_start_date < dr.fit_end_date /\ dr.fit_end_date < dr.test_end_date

\* C3: a handleCompute run with a date range that is not
\* fit_start < fit_end < test_end is rejected: nothing is sent, no marker or
\* timer is created, results are untouched and isComputing stays false.
C3_InvalidRangeRejected ==
  [][(/\ lastOp'.op \in {"handleCompute.rejected", "handleCompute.returned",
                        "handleCompute.started"}
      /\ ~RangeIsValid(dateRange))
     => /\ lastOp'.op = "handleCompute.rejected"
        /\ UNCHANGED <<sent, pendingComputes, pendingTimeouts, timers, results>>
        /\ sent' = <<>>
        /\ pendingComputes' = {}
        /\ ~isComputing /\ ~isComputing']_vars

\* C3 witness: a compute was rejected and the validation toast is shown.
C3_Witness ==
  /\ lastOp.op = "handleCompute.rejected"
  /\ ~RangeIsValid(dateRange)
  /\ toasts # <<>>
  /\ enabledIds # {}

\* C4: a scoped error for a, arriving while a and another allocator are
\* pending, removes a's marker and timer only: the other markers, their
\* timers and the stored results are unchanged; and a result that arrives for
\* an allocator is stored, whatever errors came before.
C4_ScopedErrorIsolated ==
  [][/\ \A a \in AllocIds :
          (lastOp' = Op("error", a, NoResult, 0) /\ a \in pendingComputes
             /\ Cardinality(pendingComputes) >= 2)
          => /\ pendingComputes' = pendingComputes \ {a}
             /\ pendingTimeouts' = MapDelete(pendingTimeouts, a)
             /\ timers' = MapDelete(timers, pendingTimeouts[a])
             /\ results' = results
             /\ isComputing'
     /\ \A b \in AllocIds :
          (lastOp'.op = "result" /\ lastOp'.id = b)
          => /\ results'[b] = lastOp'.val
             /\ \A c \in pendingComputes \ {b} : c \in pendingComputes']_vars

\* C4 witness: the scoped error for one allocator has been handled and the
\* other allocator of the batch is still pending with its timer.
C4_Witness ==
  /\ lastOp.op = "error"
  /\ lastOp.id \in {sent[i].allocator_id : i \in DOMAIN sent}
  /\ lastOp.id \notin pendingComputes
  /\ Cardinality(pendingComputes) = 1
  /\ \A b \in pendingComputes : LiveTimersOf(b) # {}

\* C5: when the status leaves 'connected' with two or more computes pending,
\* every marker is removed, every timer is cancelled (no live timer is left
\* to fire) and isComputing and the progress indicator are reset.
C5_DisconnectReleasesAll ==
  [][(status = "connected" /\ status' # "connected" /\ Cardinality(pendingComputes) >= 2)
     => /\ pendingComputes' = {}
        /\ pendingTimeouts' = EmptyMap
        /\ timers' = EmptyMap
        /\ ~isComputing'
        /\ computingProgress' = NoId]_vars

\* C5 witness: a status change has released two pending markers.
C5_Witness ==
  /\ lastOp.op = "onStatusChange"
  /\ lastOp.n = 2
  /\ status # "connected"
  /\ timers = EmptyMap

\* C6: with the browser's timers as the only thing that is sure to happen, every
\* pending compute is eventually cleared: whenever a marker is pending, a
\* state with no marker at all follows (a batch starts only from the empty
\* set, so this clears each marker of the batch); a timer that fires releases
\* its allocator's marker and timer; and with no pending compute left
\* isComputing is false.
C6_PendingEventuallyCleared ==
  /\ (pendingComputes # {}) ~> (pendingComputes = {})
  /\ [][lastOp'.op = "timeout" =>
          /\ lastOp'.id \notin pendingComputes'
          /\ lastOp'.id \notin DOMAIN pendingTimeouts'
          /\ \A h \in DOMAIN timers' : timers'[h] # lastOp'.id]_vars
  /\ [](pendingComputes = {} => ~isComputing)

\* C6 witness: the timer of the last pending compute has fired while the
\* connection was up, and isComputing is false.
C6_Witness ==
  /\ lastOp.op = "timeout"
  /\ status = "connected"
  /\ pendingComputes = {}
  /\ timers = EmptyMap
  /\ ~isComputing

\* C7: when the timer of a pending compute fires while the connection is
\* up, an error for that allocator is put in front of the user: the step
\* adds a toast.  (Stated as the specification has it; the timer's callback
\* only logs to the console and cleans up.)
C7_TimeoutSurfacesError ==
  [][(lastOp'.op = "timeout" /\ status = "connected") => toasts' # toasts]_vars

\* C8: a result message for a is stored as results[a], replacing what was
\* stored for a, leaves the other results alone, and clears a's pending
\* marker and timer.
C8_ResultStoredAndCleared ==
  [][\A a \in AllocIds :
       (lastOp'.op = "result" /\ lastOp'.id = a)
       => /\ results'[a] = lastOp'.val
          /\ \A b \in AllocIds \ {a} : results'[b] = results[b]
          /\ a \notin pendingComputes'
          /\ a \notin DOMAIN pendingTimeouts'
          /\ \A h \in DOMAIN timers' : timers'[h] # a]_vars

\* C8 witness: a result for a pending allocator replaced a different earlier
\* result.
C8_Witness ==
  /\ lastOp.op = "result"
  /\ lastOp.n # NoResult
  /\ lastOp.n # lastOp.val
  /\ results[lastOp.id] = lastOp.val

C10_BatchHintsCarried ==
  [][lastOp'.op = "handleCompute.started" =>
       \A k \in DOMAIN sent' :
         /\ sent'[k].allocator_id = enabledAllocatorsNow[k].id
         /\ "total_allocators" \in DOMAIN sent'[k]
         /\ "current_allocator" \in DOMAIN sent'[k]
         /\ sent'[k].total_allocators = Len(enabledAllocatorsNow)
         /\ sent'[k].current_allocator = k]_vars

\* What an acknowledgement does to the list
AckEffect(list, f) ==
  CASE f.type = "allocator_created" -> Append(list, [id |-> f.id, type |-> f.allocator_type])
    [] f.type = "allocator_deleted" -> Filter(list, Ids(list) \ {f.id})
    [] f.type = "allocators_list" -> f.list
    [] OTHER -> list

\* C11: a user action that sends a create, update or delete request leaves
\* the allocator list (and the enabled set and the results) as it was; the
\* list changes only in a step that completes the dashboard load or that
\* handles an acknowledgement received on the open socket, and then to what
\* the response or the acknowledgement says.
C11_ListChangesOnlyOnAck ==
  [][/\ lastOp'.op \in {"create_allocator", "update_allocator", "delete_allocator"}
          => UNCHANGED <<allocators, enabledIds, results>>
     /\ allocators' # allocators
          => \/ isLoadingDashboard /\ ~isLoadingDashboard' /\ allocators' \in WireLists
             \/ /\ socketOpen
                /\ \E f \in AllocatorFrames : allocators' = AckEffect(allocators, f)]_vars

\* C11 witness: the delete request for an allocator has been sent and the
\* allocator is still in the list.
C11_Witness ==
  /\ lastOp.op = "delete_allocator"
  /\ lastOp.n = 1
  /\ lastOp.id \in Ids(allocators)
  /\ deletingAllocator = NoAllocator

\* C12: every allocator of the list has one of the three allocator types.
\* (Stated as the specification has it; the dashboard load copies the type
\* of the response unvalidated.)
C12_ListTypesKnown ==
  \A i \in DOMAIN allocators : allocators[i].type \in AllocatorTypes

\* C13: for every valid (fit_end, test_end, interval) the scheduler's segments
\* are non-empty, each runs forwards, each starts where the previous one ended,
\* the first starts at fit_end and the last ends at test_end: contiguous,
\* non-overlapping, covering exactly [fit_end, test_end].
C13_SegmentsTileWindow ==
  schedIO.output # <<>> =>
    LET segs == schedIO.output
        n == Len(segs)
    IN /\ n >= 1
       /\ segs[1].start_date = schedIO.input[1]
       /\ segs[n].end_date = schedIO.input[2]
       /\ \A i \in 1..n : segs[i].start_date < segs[i].end_date
       /\ \A i \in 1..(n - 1) : segs[i].end_date = segs[i + 1].start_date

\* Several segments were produced and the last one is shorter than a full
\* month step: its end was clamped to test_end.
C13_Witness ==
  /\ Len(schedIO.output) >= 2
  /\ schedIO.input[3].unit = "months"
  /\ AddInterval(schedIO.output[Len(schedIO.output)].start_date, schedIO.input[3]) > schedIO.input[2]

\* C14: for a result without backend stats, the annualized return is 0 when
\* there are fewer than two dates or the last date is not after the first, and
\* otherwise (both dates parse and the last is later) it is the CAGR of the
\* last cumulative return over (last - first) days / 365.25 years.
C14_AnnualizedReturnFallback ==
  (statsIO.output # <<>> /\ ~statsIO.input.stats.present) =>
    LET dates == statsIO.input.dates
        n == Len(dates)
        out == statsIO.output[1]
        total == IF Len(statsIO.input.cumulative_returns) = 0 THEN 0
                 ELSE statsIO.input.cumulative_returns[Len(statsIO.input.cumulative_returns)]
    IN /\ n < 2 => out.annualizedReturn = Plain(0)
       /\ (n >= 2 /\ ~dates[1].nan /\ ~dates[n].nan) =>
            LET days == dates[n].num - dates[1].num
            IN /\ days <= 0 => out.annualizedReturn = Plain(0)
               /\ days > 0 => /\ out.annualizedReturn.kind = "cagr"
                              /\ out.annualizedReturn.of = total
                              /\ out.annualizedReturn.over.num * 36525
                                   = days * 100 * out.annualizedReturn.over.den
                              /\ out.totalReturn = total

\* A result without backend stats spanning a year with a non-zero total return
\* got a CAGR.
C14_Witness ==
  /\ statsIO.output # <<>>
  /\ ~statsIO.input.stats.present
  /\ statsIO.output[1].annualizedReturn.kind = "cagr"
  /\ statsIO.output[1].totalReturn # 0
  /\ Len(statsIO.input.dates) = 3

\* C15: whenever the connected service's current socket closes unexpectedly
\* (a close event with a code other than 1000 while no client disconnect is in
\* progress), the status afterwards is 'reconnecting' or 'error'.
C15_UnexpectedCloseLeavesConnected ==
  [][(/\ lastOp'.op = "close"
      /\ lastOp'.id = svc.ws
      /\ lastOp'.val # 1000
      /\ ~svc.isCleanClose
      /\ svc.status = "connected")
       => svc'.status \in {"reconnecting", "error"}]_vars

\* The current socket's close event, with a code other than 1000 and no client
\* disconnect in progress
UnexpectedClose ==
  /\ lastOp'.op = "close"
  /\ lastOp'.id = svc.ws
  /\ lastOp'.val # 1000
  /\ ~svc.isCleanClose

\* C16: reconnectAttempts stays within 0..5; the open of the current socket
\* resets it to 0; a reconnect timer is only ever scheduled below the limit and
\* counts one attempt; when the fifth attempt has run (five counted, no timer
\* pending) the failure of its socket sets the status to 'error' and sets no
\* timer; and a service with five attempts counted, no timer pending and no
\* live socket has status 'error'.
C16_ReconnectBounded ==
  /\ [](svc.reconnectAttempts \in 0..maxReconnectAttempts)
  /\ []((/\ svc.reconnectAttempts = maxReconnectAttempts
         /\ browser.timeouts = {}
         /\ (svc.ws = NoId \/ browser.sockets[svc.ws].readyState = "CLOSED"))
          => svc.status = "error")
  /\ [][/\ (lastOp'.op = "open" /\ lastOp'.id = svc.ws) => svc'.reconnectAttempts = 0
        /\ ~(browser'.timeouts \subseteq browser.timeouts)
             => /\ svc.reconnectAttempts < maxReconnectAttempts
                /\ svc'.reconnectAttempts = svc.reconnectAttempts + 1
        /\ (UnexpectedClose /\ svc.reconnectAttempts = maxReconnectAttempts /\ browser.timeouts = {})
             => /\ svc'.status = "error"
                /\ browser'.timeouts = {}]_vars

\* The fifth reconnect attempt failed: status 'error', five attempts counted,
\* no timer pending.
C16_Witness ==
  /\ lastOp.op = "close"
  /\ svc.status = "error"
  /\ svc.reconnectAttempts = maxReconnectAttempts
  /\ browser.timeouts = {}
  /\ Len(browser.sockets) = maxReconnectAttempts + 1

\* The state disconnect() leaves
Disconnected ==
  /\ svc.status = "disconnected"
  /\ svc.ws = NoId
  /\ svc.reconnectTimeoutId = NoId
  /\ browser.timeouts = {}
  /\ svc.reconnectAttempts = 0

\* C17: disconnect() leaves status 'disconnected', a null socket, no reconnect
\* timer and zero attempts; from then until connect() is called no step changes
\* the service's fields, sets a timer or invokes a callback; and no close event
\* with code 1000 schedules a reconnect.
C17_DisconnectIsQuiet ==
  [][/\ lastOp'.op = "disconnect" => Disconnected'
     /\ (Disconnected /\ lastOp'.op # "connect")
          => /\ Disconnected'
             /\ svc'.isReconnecting = svc.isReconnecting
             /\ lastOp'.op \notin {"timer", "open"}
             /\ lastOp'.op \in {"close", "message"} => lastOp'.n = 0
     /\ (lastOp'.op = "close" /\ lastOp'.val = 1000)
          => /\ browser'.timeouts \subseteq browser.timeouts
             /\ svc'.reconnectAttempts <= svc.reconnectAttempts
             /\ lastOp'.id = svc.ws => svc'.status = "disconnected"]_vars

\* After a disconnect() of a connected service the old socket's closing
\* handshake completed and the service stayed as disconnect() left it.
C17_Witness ==
  /\ lastOp.op = "close"
  /\ lastOp.val = 1000
  /\ lastOp.n = 0
  /\ Disconnected
  /\ svc.isCleanClose
  /\ browser.sockets # <<>>

C19_ComputingIffPending ==
  /\ [](isComputing <=> pendingComputes # {})
  /\ [][mounted' =>
          /\ (~isComputing /\ isComputing')
               => lastOp'.op = "handleCompute.started" /\ pendingComputes' # {}
          /\ (isComputing /\ ~isComputing')
               => \/ lastOp'.op \in {"result", "timeout"} /\ pendingComputes = {lastOp'.id}
                  \/ lastOp'.op = "error" /\ lastOp'.id # NoId /\ pendingComputes = {lastOp'.id}
                  \/ lastOp'.op = "onStatusChange" /\ status' # "connected"
          /\ (isComputing /\ isComputing') => pendingComputes' # {}]_vars

\* The timer of the last pending compute fired and isComputing went back to
\* false.
C19_Witness ==
  /\ mounted
  /\ lastOp.op = "timeout"
  /\ ~isComputing
  /\ pendingComputes = {}

\* C20: a handleCompute that starts a batch leaves a pending marker for
\* exactly the allocators enabled when it ran and has transmitted exactly one
\* compute message for each of them and for no other allocator.
C20_MarkersMatchRequests ==
  [][lastOp'.op = "handleCompute.started" =>
       /\ pendingComputes' = Ids(enabledAllocatorsNow)
       /\ \A a \in pendingComputes' :
            Cardinality({k \in DOMAIN sent' : sent'[k].allocator_id = a}) = 1
       /\ \A k \in DOMAIN sent' : sent'[k].allocator_id \in pendingComputes']_vars

\* C22: every error message the page receives from the server adds one toast,
\* of type 'warning' or 'error', to the toasts shown.
C22_ServerErrorToasted ==
  [][lastOp'.op = "error" =>
       /\ Len(toasts') = Len(toasts) + 1
       /\ toasts'[Len(toasts')].type \in {"warning", "error"}]_vars

\* C23: a frame on which the page's handler throws (an allocator_created or
\* allocators_list with an allocator the page cannot type) leaves the
\* allocator list, every other state of the page, the registered handler, the
\* queue and the connection as they were, and the handler was called once.
C23_ThrowingFrameIsIsolated ==
  [][lastOp'.op = "handler.threw" =>
       /\ UNCHANGED <<pageVars, modalVars, hookVars, svcVars>>
       /\ lastOp'.n = 1]_vars

\* The handler threw on a frame while the page held two allocators, and the
\* list is still there.
C23_Witness ==
  /\ lastOp.op = "handler.threw"
  /\ Len(allocators) = 2
  /\ messageHandler = "page"
  /\ socketOpen

\* C24: a frame that is not a JSON object with a string type (unparsable
\* text, null, a number, an object without type) is never handed to the
\* registered handler and never queued: everything delivered or queued is an
\* object with a type, and the arrival of such a frame leaves the queue, what
\* was delivered, the registered handler and the page's state unchanged.
C24_InvalidFrameDropped ==
  /\ [](\A i \in DOMAIN delivered : delivered[i].shape = "object" /\ delivered[i].type # "none")
  /\ [](\A i \in DOMAIN messageQueue : messageQueue[i].shape = "object" /\ messageQueue[i].type # "none")
  /\ [][(arrived'.n = arrived.n + 1 /\ arrived'.valid = arrived.valid)
          => UNCHANGED <<messageQueue, delivered, messageHandler, pageVars, modalVars>>]_vars

\* An invalid frame arrived while no handler was registered and valid
\* messages were queued, and another after a handler was registered.
C24_Witness ==
  /\ arrived.n = MaxArrivals
  /\ Cardinality(arrived.valid) = 2
  /\ arrived.flushed = 1
  /\ Len(delivered) = 2
  /\ 1 \notin arrived.valid
  /\ MaxArrivals \notin arrived.valid

\* C25: a handleCompute that starts a batch removes the stored results of the
\* allocators of the batch (the enabled ones) and leaves every other stored
\* result as it was.
C25_BatchClearsOwnResults ==
  [][lastOp'.op = "handleCompute.started" =>
       /\ pendingComputes' = Ids(enabledAllocatorsNow)
       /\ \A a \in AllocIds :
            results'[a] = IF a \in pendingComputes' THEN NoResult ELSE results[a]]_vars

\* A batch of one allocator was started while the result of the other
\* allocator, which is not enabled, stays stored.
C25_Witness ==
  /\ lastOp.op = "handleCompute.started"
  /\ Cardinality(pendingComputes) = 1
  /\ \E a \in AllocIds \ pendingComputes : results[a] # NoResult /\ a \in Ids(allocators)

\* C26: every allocator id that has a stored result is the id of an allocator
\* in the allocator list.
C26_ResultsOnlyForListed ==
  \A a \in AllocIds : results[a] # NoResult => a \in Ids(allocators)

\* C21: a result or scoped error that answers a request the page had given up
\* on (an earlier request for the same allocator) does not remove the marker
\* of the allocator's newer pending compute.
C21_LateResponseKeepsNewMarker ==
  [][(/\ lastOp'.op \in {"result", "error"}
      /\ lastOp'.id \in abandoned.ids
      /\ lastOp'.id \in pendingComputes)
       => lastOp'.id \in pendingComputes']_vars
====
